---------------------------- MODULE Spec2Model ----------------------------
(***************************************************************************)
(* A model of ThaliPeerPoolOneAtATime                                      *)
(* (thali/NextGeneration/thaliPeerPool/thaliPeerPoolOneAtATime.js).        *)
(*                                                                         *)
(* The pool object holds _stopped, _serialPromiseQueue and                 *)
(* _wifiReplicationCount.  Peer actions are objects of the caller; the     *)
(* model keeps, per action, what the pool does to it (start, kill, the     *)
(* replacement of its kill method) and what the action does back (its      *)
(* start promise settling).  JavaScript is single threaded: every handler  *)
(* and every promise continuation is one atomic step.                      *)
(*                                                                         *)
(* The actions enqueue() takes are kept in the order in which it took      *)
(* them (serialActions).  _wifiEnqueue keeps no order and no identity of   *)
(* the actions it is given, so these are kept as a bag of records          *)
(* (wifiActions): how many actions are in each situation.                  *)
(***************************************************************************)
EXTENDS Integers, Sequences, FiniteSets, Bags, TLC

\* ------------------------------------------------------------ bounds ----
\* Number of peer action objects the caller hands to the pool.
MaxActions == 4

Peers == {"p1", "p2"}
NoPeer == "none"

\* ThaliReplicationPeerAction.actionType and any other action type.
ReplicationActionType == "ReplicationAction"
OtherActionType == "GetRequestBeacons"
ActionTypes == {ReplicationActionType, OtherActionType}

\* A key that is not in the _wifiReplicationCount object reads as undefined.
\* The code treats undefined and 0 alike in _wifiEnqueue and never stores 0,
\* so the model writes both as Absent.
Absent == 0

\* Argument lists a caller may pass to kill.
KillArguments == {<<>>, <<"again">>}

\* ThaliPeerPoolOneAtATime.ERRORS.ENQUEUE_WHEN_STOPPED, and whatever an
\* action's start throws when it throws instead of returning a promise.
ENQUEUE_WHEN_STOPPED == "We are stopped"
StartError == "start threw"
NoError == "none"

NoAgent == [bound |-> FALSE, pskIdentity |-> "none", pskKey |-> "none"]
NoCall == [made |-> FALSE, this |-> "none", args |-> <<>>]

\* What one step hands to its caller, to the action and to the logger:
\*   thrown        the error the call throws
\*   taken         enqueue() took the action: "first" try, or "retry" of an
\*                 action it had refused
\*   verdict       what _wifiEnqueue did with the action
\*   peerId        the peer whose count the step read (_wifiEnqueue of a
\*                 replication action, a replaced kill)
\*   settled       the outcome of the start promise that settles in the step
\*   kill          receiver and arguments of a call of an action's kill
\*   originalKill  receiver and arguments with which the original kill runs
\*   logged        the messages given to logger.error
Quiet == [thrown |-> NoError, taken |-> "none", verdict |-> "none",
          peerId |-> NoPeer, settled |-> "none", kill |-> NoCall,
          originalKill |-> NoCall, logged |-> {}]

VARIABLES
  stopped,               \* this._stopped
  wifiReplicationCount,  \* this._wifiReplicationCount, peer -> count
  serialPromiseQueue,    \* units of this._serialPromiseQueue not yet run
  serialActions,         \* the actions enqueue() took, in that order
  wifiActions,           \* bag of the actions _wifiEnqueue was given
  output,                \* what the last step handed out, see Quiet
  \* history variables, read by the properties only
  lastStartStop,         \* the last of start() / stop() that was called
  refused,               \* enqueue() has refused the action at hand
  streak                 \* per peer: see RecordSubmission

vars == <<stopped, wifiReplicationCount, serialPromiseQueue, serialActions,
          wifiActions, output, lastStartStop, refused, streak>>

\* ------------------------------------------------------- constructor ----
Init ==
  /\ stopped = TRUE
  /\ wifiReplicationCount = [p \in Peers |-> Absent]
  /\ serialPromiseQueue = <<>>
  /\ serialActions = <<>>
  /\ wifiActions = EmptyBag
  /\ output = Quiet
  /\ lastStartStop = "none"
  /\ refused = FALSE
  /\ streak = [p \in Peers |-> 0]

\* The caller has a further action to hand over.
MayHandOver == Len(serialActions) + BagCardinality(wifiActions) < MaxActions

One(r) == SetToBag({r})

\* ------------------------------------------------ connection agent ------
\* new ForeverAgent.SSL({... pskIdentity: peerAction.getPskIdentity(),
\* pskKey: peerAction.getPskKey()}): the credentials of the action itself.
ForeverAgentSSL == [bound |-> TRUE, pskIdentity |-> "getPskIdentity()",
                    pskKey |-> "getPskKey()"]

\* _startAction(peerAction): builds the agent and invokes start with it.  An
\* action's start is "idle" until it is invoked, "pending" while its promise
\* is, and "over" from then on.  A start that throws instead of returning a
\* promise leaves no promise to settle; the throw leaves _startAction and
\* its caller.
startAction(r, startThrows) ==
  [r EXCEPT !.agent = ForeverAgentSSL,
            !.start = IF startThrows THEN "over" ELSE "pending"]

\* ------------------------------------------------ replication counter ---
\* CountAfterAdmit with the second case storing a wrong number.
CountAfterAdmitSkips(count) ==
  CASE count = Absent -> 1
    [] count = 1 -> 3
    [] OTHER -> count

\* The switch of _wifiEnqueue on the stored count: what it stores.
CountAfterAdmit(count) ==
  CASE count = Absent -> 1
    [] count = 1 -> 2
    [] OTHER -> count

\* RejectedAtCap with the cap one too low.
RejectedAtCapEarly(count) == count >= 1

\* RejectedAtCap with the cap one too high.
RejectedAtCapLate(count) == count = 3

\* case 2 returns peerAction.kill() and starts nothing.
RejectedAtCap(count) == count = 2

\* default: logger.error('We got an illegal count: ' + count)
IllegalCountLog(count) ==
  IF count \in {Absent, 1, 2} THEN {} ELSE {"We got an illegal count"}

\* CountAfterKill with the second case deleting the count as the first does.
CountAfterKillDeletes(count) ==
  CASE count = 1 -> Absent
    [] count = 2 -> Absent
    [] OTHER -> count

\* The switch of the replaced kill on the stored count.
CountAfterKill(count) ==
  CASE count = 1 -> Absent
    [] count = 2 -> 1
    [] OTHER -> count

\* default: logger.error('Count had to be 1 or 2 - ' + count)
KillCountLog(count) ==
  IF count \in {1, 2} THEN {} ELSE {"Count had to be 1 or 2"}

\* originalKill.apply(this, arguments)
OriginalKillApply(receiver, arguments) ==
  [made |-> TRUE, this |-> receiver, args |-> arguments]

\* An action as the caller hands it over: nothing has been done to it.
\* peerId is the peerId that the replacement of its kill holds (line 112),
\* once kill is replaced.
NewAction(type) ==
  [type |-> type, peerId |-> NoPeer, route |-> "none", wrapped |-> FALSE,
   start |-> "idle", agent |-> NoAgent, killed |-> FALSE, poolKills |-> 0]

\* One call r.kill(arguments): the replacement installed by _wifiEnqueue, if
\* any, and then the action's own kill.  The first three give the count, the
\* log and the output after the call; Killed gives the action after it.
KillCount(r) ==
  IF r.wrapped
    THEN [wifiReplicationCount EXCEPT ![r.peerId] = CountAfterKill(@)]
    ELSE wifiReplicationCount

KillLog(r) ==
  IF r.wrapped THEN KillCountLog(wifiReplicationCount[r.peerId]) ELSE {}

KillOutput(r, arguments) ==
  [Quiet EXCEPT !.kill = [made |-> TRUE, this |-> "action", args |-> arguments],
                !.originalKill = OriginalKillApply("action", arguments),
                !.peerId = r.peerId,
                !.logged = KillLog(r)]

Killed(r) == [r EXCEPT !.killed = TRUE]

\* History: streak[p] counts the replication actions handed to _wifiEnqueue
\* for peer p, from the one that found p's count absent on, as long as no
\* replaced kill for p and no stop() came in between.
RecordSubmission(peerId) ==
  streak' =
    [streak EXCEPT ![peerId] =
       IF wifiReplicationCount[peerId] = Absent THEN 1
       ELSE IF @ > 0 THEN @ + 1 ELSE 0]

RecordKill(r) ==
  streak' = IF r.wrapped THEN [streak EXCEPT ![r.peerId] = 0] ELSE streak

\* _wifiEnqueue without the check of the action type (lines 108-110): every
\* action is counted.
wifiEnqueueCountsAll(type, peerId, startThrows) ==
  LET count == wifiReplicationCount[peerId]
      r == NewAction(type)
  IN
  /\ MayHandOver
  /\ IF RejectedAtCap(count)
       THEN /\ wifiActions' = wifiActions (+)
                 One([Killed(r) EXCEPT !.route = "killedAtCap",
                                       !.poolKills = @ + 1])
            /\ wifiReplicationCount' = KillCount(r)
            /\ output' = [KillOutput(r, <<>>) EXCEPT !.verdict = "killed",
                                                     !.peerId = peerId]
       ELSE /\ wifiReplicationCount' =
                 [wifiReplicationCount EXCEPT ![peerId] = CountAfterAdmit(count)]
            /\ wifiActions' = wifiActions (+)
                 One(startAction([r EXCEPT !.route = "wifi",
                                           !.wrapped = TRUE,
                                           !.peerId = peerId], startThrows))
            /\ output' =
                 [Quiet EXCEPT !.thrown = IF startThrows THEN StartError
                                                         ELSE NoError,
                               !.verdict = "started",
                               !.peerId = peerId,
                               !.logged = IllegalCountLog(count)]
  /\ RecordSubmission(peerId)
  /\ refused' = FALSE
  /\ UNCHANGED <<stopped, serialPromiseQueue, serialActions, lastStartStop>>

\* _wifiEnqueue(peerAction); type and peerId are what getActionType() and
\* getPeerIdentifier() return.  The method reads the action type and the
\* count only: it does not read _stopped.
wifiEnqueue(type, peerId, startThrows) ==
  LET count == wifiReplicationCount[peerId]
      thrown == IF startThrows THEN StartError ELSE NoError
      r == NewAction(type)
  IN
  /\ MayHandOver
  /\ IF type # ReplicationActionType
       THEN /\ wifiActions' = wifiActions (+)
                 One(startAction([r EXCEPT !.route = "wifi"], startThrows))
            /\ output' = [Quiet EXCEPT !.thrown = thrown,
                                       !.verdict = "started"]
            /\ UNCHANGED <<wifiReplicationCount, streak>>
     ELSE IF RejectedAtCap(count)
       THEN /\ wifiActions' = wifiActions (+)
                 One([Killed(r) EXCEPT !.route = "killedAtCap",
                                       !.poolKills = @ + 1])
            /\ wifiReplicationCount' = KillCount(r)
            /\ output' = [KillOutput(r, <<>>) EXCEPT !.verdict = "killed",
                                                     !.peerId = peerId]
            /\ RecordSubmission(peerId)
     ELSE   /\ wifiReplicationCount' =
                 [wifiReplicationCount EXCEPT ![peerId] = CountAfterAdmit(count)]
            /\ wifiActions' = wifiActions (+)
                 One(startAction([r EXCEPT !.route = "wifi",
                                           !.wrapped = TRUE,
                                           !.peerId = peerId], startThrows))
            /\ output' = [Quiet EXCEPT !.thrown = thrown,
                                       !.verdict = "started",
                                       !.peerId = peerId,
                                       !.logged = IllegalCountLog(count)]
            /\ RecordSubmission(peerId)
  /\ refused' = FALSE
  /\ UNCHANGED <<stopped, serialPromiseQueue, serialActions, lastStartStop>>

\* ----------------------------------------------------- serial lane ------
\* Names that line 195 can resolve: the parameters and locals of enqueue and
\* of the queued function, and the module's top-level bindings (lines 3-12,
\* 70).  The only declaration of actionAgent is local to _startAction.
EnqueueScope == {"peerAction", "result", "resolve", "reject", "arguments"}
ModuleScope == {"util", "ThaliPeerPoolInterface", "thaliConfig", "ForeverAgent",
                "logger", "Utils", "Promise", "PromiseQueue",
                "ThaliReplicationPeerAction", "assert",
                "ThaliPeerPoolOneAtATime"}
ActionAgentInScope == "actionAgent" \in EnqueueScope \cup ModuleScope

\* What actionAgent would evaluate to at line 195 if it resolved.
ScopeAgent == [bound |-> TRUE, pskIdentity |-> "scope", pskKey |-> "scope"]

\* The unit of an action: "queued", then "started" (start was invoked and
\* its promise is pending), "threw" (line 195 threw) or "resolved" (line 202).
Unit(i) == serialActions[i].unit

\* A unit is running in the lane.
LaneBusy == \E i \in 1..Len(serialActions) : Unit(i) = "started"

\* enqueue without the check of _stopped (lines 180-182).
enqueueUnchecked ==
  /\ MayHandOver
  /\ serialActions' =
       Append(serialActions,
              [unit |-> "queued", start |-> "idle",
               agent |-> NoAgent, killed |-> FALSE, poolKills |-> 0])
  /\ serialPromiseQueue' = Append(serialPromiseQueue, Len(serialActions) + 1)
  /\ output' = [Quiet EXCEPT !.taken = IF refused THEN "retry" ELSE "first"]
  /\ refused' = FALSE
  /\ UNCHANGED <<stopped, wifiReplicationCount, wifiActions, lastStartStop,
                 streak>>

\* enqueue(peerAction).  The base class's enqueue (line 187) is not part of
\* the pool's state kept here.  enqueue reads nothing of the action.
enqueue ==
  /\ MayHandOver
  /\ IF stopped
       THEN /\ output' = [Quiet EXCEPT !.thrown = ENQUEUE_WHEN_STOPPED]
            /\ refused' = TRUE
            /\ UNCHANGED <<serialPromiseQueue, serialActions>>
       ELSE /\ serialActions' =
                 Append(serialActions,
                        [unit |-> "queued", start |-> "idle",
                         agent |-> NoAgent, killed |-> FALSE, poolKills |-> 0])
            /\ serialPromiseQueue' =
                 Append(serialPromiseQueue, Len(serialActions) + 1)
            /\ output' =
                 [Quiet EXCEPT !.taken = IF refused THEN "retry" ELSE "first"]
            /\ refused' = FALSE
  /\ UNCHANGED <<stopped, wifiReplicationCount, wifiActions, lastStartStop,
                 streak>>

\* The promise queue runs the oldest unit once the unit before it is over.
\* The unit is the function of lines 193-204: it evaluates
\* peerAction.start(actionAgent).  An identifier that does not resolve throws
\* a ReferenceError while the arguments are evaluated, before start is
\* entered; the unit is over and the lane goes on.
RunUnit ==
  /\ serialPromiseQueue # <<>>
  /\ ~LaneBusy
  /\ LET i == Head(serialPromiseQueue)
     IN  /\ serialPromiseQueue' = Tail(serialPromiseQueue)
         /\ serialActions' =
              [serialActions EXCEPT ![i] =
                 IF ActionAgentInScope
                   THEN [@ EXCEPT !.unit = "started", !.start = "pending",
                                  !.agent = ScopeAgent]
                   ELSE [@ EXCEPT !.unit = "threw"]]
  /\ output' = Quiet
  /\ UNCHANGED <<stopped, wifiReplicationCount, wifiActions, lastStartStop,
                 refused, streak>>

\* ---------------------------------------------- the start promise -------
\* The actions whose start promise is pending.
Pending ==
  {[lane |-> TRUE, i |-> i, r |-> NewAction("none")] :
     i \in {j \in 1..Len(serialActions) : serialActions[j].start = "pending"}}
  \cup
  {[lane |-> FALSE, i |-> 0, r |-> r] :
     r \in {q \in BagToSet(wifiActions) : q.start = "pending"}}

\* The promise of start() settles.  _startAction (lines 94-101) logs and
\* returns null either way.  The queued unit (lines 196-203) logs a
\* rejection, then calls peerAction.kill() and resolve(true).
StartSettles(p, outcome) ==
  /\ p \in Pending
  /\ IF p.lane
       THEN /\ serialActions' =
                 [serialActions EXCEPT ![p.i] =
                    [@ EXCEPT !.start = "over", !.killed = TRUE,
                              !.poolKills = @ + 1, !.unit = "resolved"]]
            /\ output' = [KillOutput(p.r, <<>>) EXCEPT !.settled = outcome]
            /\ UNCHANGED wifiActions
       ELSE /\ wifiActions' = (wifiActions (-) One(p.r)) (+)
                                One([p.r EXCEPT !.start = "over"])
            /\ output' = [Quiet EXCEPT !.settled = outcome]
            /\ UNCHANGED serialActions
  /\ UNCHANGED <<stopped, wifiReplicationCount, serialPromiseQueue,
                 lastStartStop, refused, streak>>

\* ------------------------------------------------------------ kill ------
\* Someone other than the pool (the action itself, its owner) calls
\* r.kill(arguments) on an action that _wifiEnqueue started; kill may be
\* called again after it was called.
kill(r, arguments) ==
  /\ BagIn(r, wifiActions)
  /\ r.route = "wifi"
  /\ wifiReplicationCount' = KillCount(r)
  /\ wifiActions' = (wifiActions (-) One(r)) (+) One(Killed(r))
  /\ output' = KillOutput(r, arguments)
  /\ RecordKill(r)
  /\ UNCHANGED <<stopped, serialPromiseQueue, serialActions, lastStartStop,
                 refused>>

\* ----------------------------------------------------- start, stop ------
\* start without the assignment of line 211.
startLeavesStopped ==
  /\ output' = Quiet
  /\ lastStartStop' = "start"
  /\ UNCHANGED <<stopped, wifiReplicationCount, serialPromiseQueue,
                 serialActions, wifiActions, refused, streak>>

\* start() and stop(); what the base class's start and stop return is not
\* kept.
start ==
  /\ stopped' = FALSE
  /\ output' = Quiet
  /\ lastStartStop' = "start"
  /\ UNCHANGED <<wifiReplicationCount, serialPromiseQueue, serialActions,
                 wifiActions, refused, streak>>

\* ThaliPeerPoolInterface.prototype.stop, called at line 225: it stops
\* admission and kills no action that is in flight.
superStop == UNCHANGED <<serialPromiseQueue, serialActions, wifiActions>>

\* stop without the assignment of line 224.
stopKeepsCounts ==
  /\ stopped' = TRUE
  /\ output' = Quiet
  /\ lastStartStop' = "stop"
  /\ streak' = [p \in Peers |-> 0]
  /\ superStop
  /\ UNCHANGED <<wifiReplicationCount, refused>>

\* stop that also calls the kill of every action _wifiEnqueue was given.
stopKillsStarted ==
  /\ stopped' = TRUE
  /\ wifiReplicationCount' = [p \in Peers |-> Absent]
  /\ output' = [Quiet EXCEPT !.kill = [made |-> TRUE, this |-> "action",
                                       args |-> <<>>],
                             !.originalKill = OriginalKillApply("action", <<>>)]
  /\ lastStartStop' = "stop"
  /\ streak' = [p \in Peers |-> 0]
  /\ wifiActions' = BagOfAll(Killed, wifiActions)
  /\ UNCHANGED <<serialPromiseQueue, serialActions, refused>>

stop ==
  /\ stopped' = TRUE
  /\ wifiReplicationCount' = [p \in Peers |-> Absent]
  /\ output' = Quiet
  /\ lastStartStop' = "stop"
  /\ streak' = [p \in Peers |-> 0]
  /\ superStop
  /\ UNCHANGED refused

Next ==
  \/ enqueue
  \/ \E type \in ActionTypes, peerId \in Peers, startThrows \in BOOLEAN :
       wifiEnqueue(type, peerId, startThrows)
  \/ RunUnit
  \/ \E p \in Pending, outcome \in {"resolved", "rejected"} :
       StartSettles(p, outcome)
  \/ \E r \in BagToSet(wifiActions), arguments \in KillArguments :
       kill(r, arguments)
  \/ start
  \/ stop

Spec == Init /\ [][Next]_vars

\* The runs in which stop() is not called once start() was called and in
\* which no action's kill is called a second time.
NextNoReset ==
  \/ enqueue
  \/ \E type \in ActionTypes, peerId \in Peers, startThrows \in BOOLEAN :
       wifiEnqueue(type, peerId, startThrows)
  \/ RunUnit
  \/ \E p \in Pending, outcome \in {"resolved", "rejected"} :
       StartSettles(p, outcome)
  \/ \E r \in BagToSet(wifiActions), arguments \in KillArguments :
       ~r.killed /\ kill(r, arguments)
  \/ start
  \/ lastStartStop # "start" /\ stop

SpecNoReset == Init /\ [][NextNoReset]_vars

\* ========================================================= claims =======
\* enqueue() is the only step that throws ENQUEUE_WHEN_STOPPED or takes an
\* action into the lane.
EnqueueCalled == output.thrown = ENQUEUE_WHEN_STOPPED \/ output.taken # "none"

\* The pool is stopped for its caller: no start() yet, or stop() since.
CallerStopped == lastStartStop # "start"

\* C1: whenever the pool is stopped (initially, or after stop() and before
\* the next start()), enqueue throws 'We are stopped'; the call invokes no
\* start and leaves the serial lane and the replication counts as they were.
C1_EnqueueWhenStoppedThrows ==
  [][ (CallerStopped /\ EnqueueCalled')
        => /\ output'.thrown = ENQUEUE_WHEN_STOPPED
           /\ output'.taken = "none"
           /\ UNCHANGED <<serialPromiseQueue, serialActions, wifiActions,
                          wifiReplicationCount>> ]_vars

\* A refusal after stop(), with a unit waiting in the lane and a count stored.
C1_Witness ==
  /\ output.thrown = ENQUEUE_WHEN_STOPPED
  /\ lastStartStop = "stop"
  /\ serialPromiseQueue # <<>>
  /\ \E p \in Peers : wifiReplicationCount[p] = 2

\* C2: an enqueue call is accepted exactly when the last start()/stop() call
\* before it was start(); _stopped follows these calls, and an action that
\* was refused is taken once start() was called.
C2_AcceptedIffStarted ==
  /\ stopped <=> CallerStopped
  /\ output.thrown = ENQUEUE_WHEN_STOPPED => CallerStopped
  /\ output.taken # "none" => ~CallerStopped

C2_Witness == output.taken = "retry"

\* The serial lane has run the unit of action i.
UnitRan(i) == Unit(i) # "queued"

C4_WifiKillOnSettle ==
  /\ output.settled # "none" => output.kill.made
  /\ \A r \in BagToSet(wifiActions) : r.poolKills <= 1

\* C5: every action enqueue() took has, once the lane has run its unit, had
\* its start invoked with an agent built from its own PSK identity and key.
C5_SerialStartWithOwnAgent ==
  \A i \in 1..Len(serialActions) :
    UnitRan(i) => /\ serialActions[i].start # "idle"
                  /\ serialActions[i].agent = ForeverAgentSSL

C7_ThreeInSuccession ==
  /\ \A p \in Peers :
       (output.verdict # "none" /\ output.peerId = p) =>
         /\ streak[p] = 1 =>
              wifiReplicationCount[p] = 1 /\ output.verdict = "started"
         /\ streak[p] = 2 =>
              wifiReplicationCount[p] = 2 /\ output.verdict = "started"
         /\ streak[p] = 3 =>
              /\ wifiReplicationCount[p] = 2
              /\ output.verdict = "killed"
              /\ output.originalKill.made
  /\ \A r \in BagToSet(wifiActions) :
       /\ r.route = "killedAtCap" => r.start = "idle" /\ r.killed
       /\ r.route = "wifi" => r.start # "idle"

C7_Witness ==
  /\ streak["p1"] = 3
  /\ output.verdict = "killed"
  /\ output.peerId = "p1"

\* A step in which the replaced kill of an admitted replication action runs
\* (the kill of _wifiEnqueue at the cap is the action's own kill).
ReplacedKillRan == /\ output.kill.made
                   /\ output.verdict = "none"
                   /\ output.peerId # NoPeer

\* C8: the kill of an admitted replication action for peer P makes a count
\* of 1 absent and a count of 2 one, changes no other peer's count, and runs
\* the original kill with the receiver and the arguments of the call.
C8_KillLowersCount ==
  [][ ReplacedKillRan' =>
        LET p == output'.peerId
        IN  /\ wifiReplicationCount[p] = 1 => wifiReplicationCount'[p] = Absent
            /\ wifiReplicationCount[p] = 2 => wifiReplicationCount'[p] = 1
            /\ \A q \in Peers \ {p} :
                 wifiReplicationCount'[q] = wifiReplicationCount[q]
            /\ output'.originalKill = output'.kill ]_vars

\* A kill with arguments took p1's count from 2 to 1 (nothing was logged, so
\* the count was 1 or 2) while p2 has a count.
C8_Witness ==
  /\ ReplacedKillRan
  /\ output.kill.args = <<"again">>
  /\ output.peerId = "p1"
  /\ output.logged = {}
  /\ wifiReplicationCount["p1"] = 1
  /\ wifiReplicationCount["p2"] = 2

\* The replication actions for peer p that _wifiEnqueue started and whose
\* kill has not run.
InFlight(p) ==
  {r \in BagToSet(wifiActions) : r.wrapped /\ r.peerId = p /\ ~r.killed}

RECURSIVE Copies(_, _)
Copies(set, bag) ==
  IF set = {} THEN 0
  ELSE LET r == CHOOSE x \in set : TRUE
       IN  CopiesIn(r, bag) + Copies(set \ {r}, bag)

\* C9: under any interleaving of start(), stop(), submissions and kills, at
\* most 2 replication actions for one peer are started and not yet killed.
C9_AtMostTwoInFlight ==
  \A p \in Peers : Copies(InFlight(p), wifiActions) <= 2

\* C10: the stored count of every peer is absent, 1 or 2, and the 'illegal
\* count' branch of _wifiEnqueue is never taken.
C10_CountInRange ==
  /\ \A p \in Peers : wifiReplicationCount[p] \in {Absent, 1, 2}
  /\ "We got an illegal count" \notin output.logged

\* An action was refused at the cap of one peer while the other peer has a
\* count too.
C10_Witness ==
  /\ output.verdict = "killed"
  /\ output.peerId = "p1"
  /\ wifiReplicationCount["p1"] = 2
  /\ wifiReplicationCount["p2"] = 1

\* A call of stop() on a pool that start() had started or that was new, and a
\* call of start() on a pool that was not started.
StopCalled == lastStartStop # "stop" /\ lastStartStop' = "stop"
StartCalled == lastStartStop # "start" /\ lastStartStop' = "start"

\* A step in which _wifiEnqueue is given a replication action for peer p.
Submitted(p) == output'.verdict # "none" /\ output'.peerId = p

\* C11: stop() makes every peer's count absent, whatever is in flight;
\* start() leaves the counts as they are; and a replication action for a peer
\* whose count is absent is admitted and the count becomes 1.
C11_StopResetsCounts ==
  [][ /\ StopCalled =>
           /\ \A p \in Peers : wifiReplicationCount'[p] = Absent
           /\ stopped'
      /\ StartCalled => wifiReplicationCount' = wifiReplicationCount
      /\ \A p \in Peers :
           (Submitted(p) /\ wifiReplicationCount[p] = Absent) =>
              /\ wifiReplicationCount'[p] = 1
              /\ output'.verdict = "started" ]_vars

\* After start(), an action for p1 was admitted with count 1 while two
\* earlier ones are still in flight: stop() had reset a count of 2.
C11_Witness ==
  /\ lastStartStop = "start"
  /\ output.verdict = "started"
  /\ output.peerId = "p1"
  /\ wifiReplicationCount["p1"] = 1
  /\ Copies(InFlight("p1"), wifiActions) = 3

C13_StopKillsStarted ==
  [][ StopCalled =>
        /\ \A r \in BagToSet(wifiActions') : r.start # "idle" => r.killed
        /\ \A i \in 1..Len(serialActions') :
             serialActions'[i].start # "idle" => serialActions'[i].killed
    ]_vars

\* The actions of another type than replication that _wifiEnqueue was given
\* and whose start promise is pending.
OthersPending ==
  {r \in BagToSet(wifiActions) :
     r.type = OtherActionType /\ r.start = "pending"}

\* C14: _wifiEnqueue starts an action that is not a replication action
\* whatever the counts and the actions in flight are, never kills it, and
\* neither this nor the kill of the action nor the settling of its start
\* changes any peer's count.
C14_OtherActionsUncounted ==
  [][ /\ (output'.verdict # "none" /\ output'.peerId = NoPeer) =>
           /\ output'.verdict = "started"
           /\ wifiReplicationCount' = wifiReplicationCount
      /\ (output'.kill.made /\ output'.peerId = NoPeer) =>
           wifiReplicationCount' = wifiReplicationCount
      /\ output'.settled # "none" =>
           wifiReplicationCount' = wifiReplicationCount
      /\ \A r \in BagToSet(wifiActions') :
           r.type = OtherActionType =>
             /\ r.route = "wifi"
             /\ r.start # "idle"
             /\ ~r.wrapped
             /\ r.poolKills = 0 ]_vars

\* An action of another type was started while a peer is at the cap and
\* another such action is in flight.
C14_Witness ==
  /\ output.verdict = "started"
  /\ output.peerId = NoPeer
  /\ output.thrown = NoError
  /\ wifiReplicationCount["p1"] = 2
  /\ Copies(OthersPending, wifiActions) >= 2

\* C15: no outcome of an action's start (resolving, rejecting, throwing)
\* reaches the caller that submitted the action: the only error a call of
\* the pool throws is ENQUEUE_WHEN_STOPPED.
C15_StartFailureStaysInside ==
  output.thrown \in {NoError, ENQUEUE_WHEN_STOPPED}

\* C16: a kill of an admitted replication action whose kill has run before
\* (the action is as it was: it was killed already) changes no count.
C16_SecondKillChangesNothing ==
  [][ (ReplacedKillRan' /\ wifiActions' = wifiActions) =>
        wifiReplicationCount' = wifiReplicationCount ]_vars

\* C17: a replication action for a peer whose count is absent or 1 is
\* admitted: it is started, its kill is replaced and the count goes up by
\* one; so after a rejection at 2 and a kill, the next action is admitted
\* and the count is 2 again.
C17_AdmittedBelowCap ==
  [][ \A p \in Peers :
        (Submitted(p) /\ wifiReplicationCount[p] \in {Absent, 1}) =>
          /\ output'.verdict = "started"
          /\ wifiReplicationCount'[p] = wifiReplicationCount[p] + 1
          /\ \E r \in BagToSet(wifiActions') :
               /\ r.wrapped /\ r.peerId = p /\ r.start # "idle"
               /\ CopiesIn(r, wifiActions') = CopiesIn(r, wifiActions) + 1
    ]_vars

\* The pool is started; one action was killed at the cap, an admitted action
\* of p1 was killed, and the action just submitted for p1 was started with
\* the count back to 2.
C17_Witness ==
  /\ lastStartStop = "start"
  /\ output.verdict = "started"
  /\ output.peerId = "p1"
  /\ wifiReplicationCount["p1"] = 2
  /\ \E r \in BagToSet(wifiActions) : r.route = "killedAtCap"
  /\ \E r \in BagToSet(wifiActions) :
       r.wrapped /\ r.peerId = "p1" /\ r.killed

\* C18: the replaced kill of an admitted replication action always finds its
\* peer's count at 1 or 2: 'Count had to be 1 or 2' is never logged.
C18_KillFindsCount == "Count had to be 1 or 2" \notin output.logged

\* C19: as long as stop() is not called after start() and no kill is called
\* twice, the stored count of every peer (absent as 0) is the number of
\* replication actions admitted for the peer and not yet killed.
C19_CountIsInFlight ==
  \A p \in Peers : wifiReplicationCount[p] = Copies(InFlight(p), wifiActions)

\* A step that invokes the start of an action: _wifiEnqueue starting the
\* action it is given, or the serial lane starting the action of a unit.
StartInvoked ==
  \/ output'.verdict = "started"
  \/ \E i \in 1..Len(serialActions) :
       serialActions[i].start = "idle" /\ serialActions'[i].start # "idle"

\* C20: while the pool is stopped no action's start is invoked.
C20_NoStartWhileStopped ==
  [][ (stopped /\ stopped') => ~StartInvoked ]_vars

=============================================================================
